---- MODULE Spec2Model ----
(***************************************************************************)
(* TerrainMap (src/unnamed/part_000): a Map subclass that hands out        *)
(* terrain ids through the private cursor #nextId; and the hook            *)
(* preCreateActiveEffect (src/scripts/ActiveEffect.js).                    *)
(*                                                                         *)
(* JavaScript values are modelled as tagged records so that integers,      *)
(* non-integer numbers, NaN, null, undefined and booleans stay apart:      *)
(*   Num(i)  the integer i          Frac(i)  the number i + 0.5            *)
(*   NaN     the number NaN         Null, Undefined, True, False           *)
(***************************************************************************)
EXTENDS Integers, FiniteSets, Sequences, TLC

VARIABLES
  entries,   \* the entries of a TerrainMap
  nextId,    \* its cursor #nextId
  last,      \* the last call on it: arguments, return value, state before
  run,       \* the add calls since the last clear or recycling delete
  twin,      \* a second TerrainMap: its entries and cursor
  effects,   \* per token and terrain, the number of terrain effects on it
  hook       \* the last run of preCreateActiveEffect

vars == <<entries, nextId, last, run, twin, effects, hook>>

\* what the calls on the first TerrainMap leave alone
aside == <<twin, effects, hook>>

(* ------------------------------ bounds -------------------------------- *)

\* ids 1..MaxLowId (and two ids above MAX_TERRAINS) are offered to set and
\* delete, and add is taken while the cursor is one of them
MaxLowId == 3
\* no operation is taken that would grow the map beyond MaxSize entries, and
\* at most MaxSize add calls are taken in a row
MaxSize == 2
\* at most MaxEffects effects of one terrain are created on a token
MaxEffects == 2

(* --------------------------- JavaScript values ------------------------ *)

Num(i) == [t |-> "int", v |-> i]
Frac(i) == [t |-> "frac", v |-> i]
NaN == [t |-> "nan", v |-> 0]
Null == [t |-> "null", v |-> 0]
Undefined == [t |-> "undefined", v |-> 0]
True == [t |-> "bool", v |-> 1]
False == [t |-> "bool", v |-> 0]

IsReal(x) == x.t \in {"int", "frac"}

\* twice the numeric value of a real number (keeps i + 0.5 an integer)
Twice(x) == IF x.t = "int" THEN 2 * x.v ELSE 2 * x.v + 1

\* Number.isInteger(x)
IsInteger(x) == x.t = "int"

\* a < b and a > b on numbers: false as soon as one side is NaN
Lt(a, b) == IsReal(a) /\ IsReal(b) /\ Twice(a) < Twice(b)
Gt(a, b) == Lt(b, a)

\* a === b and a !== b: NaN is not equal to itself
StrictEq(a, b) == a = b /\ a # NaN
StrictNeq(a, b) == ~StrictEq(a, b)

\* x + 1 and x - 1: undefined + 1 and NaN + 1 are NaN, null + 1 is 1
Plus(x, d) ==
  CASE x.t = "int" -> Num(x.v + d)
    [] x.t = "frac" -> Frac(x.v + d)
    [] x.t = "null" -> Num(d)
    [] x.t = "bool" -> Num(x.v + d)
    [] OTHER -> NaN

\* a ?? b
Coalesce(a, b) == IF a \in {Null, Undefined} THEN b ELSE a

(* ------------------------------ TerrainMap ---------------------------- *)

\* MAX_TERRAINS = Math.pow(2, 5) - 1
MAX_TERRAINS == 2^5 - 1

(* ------------------------------- inputs ------------------------------- *)

LowIds == {Num(i) : i \in 1..MaxLowId}
OverIds == {Num(MAX_TERRAINS + 1), Num(MAX_TERRAINS + 2)}
ValidIds == LowIds \cup OverIds
InvalidIds == {Num(0), Frac(1), NaN}
IdInputs == ValidIds \cup InvalidIds \cup {Null}

\* the terrains stored in the map are opaque
Terrains == {"x", "y"}

EmptyMap == [k \in {} |-> "x"]

\* Map.prototype.has / size / set / delete (keys compare by SameValueZero,
\* so NaN is one key)
Has(m, id) == id \in DOMAIN m
Size(m) == Cardinality(DOMAIN m)
MapSet(m, id, terrain) ==
  [k \in DOMAIN m \cup {id} |-> IF k = id THEN terrain ELSE m[k]]
MapDelete(m, id) == [k \in DOMAIN m \ {id} |-> m[k]]

RECURSIVE SortAsc(_)
SortAsc(S) ==
  IF S = {} THEN << >>
  ELSE LET lo == CHOOSE x \in S : \A y \in S : Twice(x) <= Twice(y)
       IN  <<lo>> \o SortAsc(S \ {lo})

Perms(S) ==
  {p \in [1..Cardinality(S) -> S] : \A i, j \in DOMAIN p : p[i] = p[j] => i = j}

\* [...keys].sort((a, b) => a - b): the possible results.
\* Numbers other than NaN sort ascending.  With NaN among the keys the
\* comparator returns NaN (read as +0) for every pair that involves it and is
\* not a consistent comparator: the resulting order is left to the engine and
\* to the insertion order, so every order is a possible outcome.
Sort(S) == IF NaN \in S THEN Perms(S) ELSE {SortAsc(S)}

At(keys, i) == IF i \in 1..Len(keys) THEN keys[i] ELSE Undefined

\* Find with the comparison inverted (=== for !==)
Find_inverted(keys) ==
  LET hits == {i \in 1..Len(keys) : StrictEq(At(keys, i + 1), Plus(keys[i], 1))}
  IN  IF hits = {} THEN Undefined
      ELSE keys[CHOOSE i \in hits : \A j \in hits : i <= j]

\* keys.find((k, idx) => keys[idx + 1] !== k + 1)
Find(keys) ==
  LET hits == {i \in 1..Len(keys) : StrictNeq(At(keys, i + 1), Plus(keys[i], 1))}
  IN  IF hits = {} THEN Undefined
      ELSE keys[CHOOSE i \in hits : \A j \in hits : i <= j]

\* the values of lastConsecutiveKey for a key set S: sort, then find
LastConsecutive(S) == {Find(keys) : keys \in Sort(S)}

\* LastConsecutive tabulated once over the key sets of the bounded map
\* (@@ makes the table an explicit function)
KeyTable ==
  [S \in {T \in SUBSET (ValidIds \cup {NaN}) : Cardinality(T) <= MaxSize}
     |-> LastConsecutive(S)] @@ << >>

\* const keys = [...this.keys()].sort(...); keys.find(...)
lastConsecutiveKey(m) ==
  IF DOMAIN m \in DOMAIN KeyTable THEN KeyTable[DOMAIN m]
  ELSE LastConsecutive(DOMAIN m)

\* #findNextId() for one value k of lastConsecutiveKey; m is the map after
\* the mutation and n the cursor before it
findNextId(m, n, k) ==
  IF StrictEq(Num(Size(m)), Plus(n, -1)) THEN Plus(n, 1)
  ELSE Coalesce(Plus(k, 1), Num(1))

\* the cursors #findNextId() can return
NextIds(m, n) == {findNextId(m, n, k) : k \in lastConsecutiveKey(m)}

Result(m, n, ret) == [entries |-> m, nextId |-> n, ret |-> ret]

\* set without the duplicate check of its first guard
set_noDuplicateCheck(m, n, id0, terrain, override) ==
  LET id == Coalesce(id0, n)
  IN  IF ~IsInteger(id) \/ Lt(id, Num(1)) THEN {Result(m, n, Undefined)}
      ELSE LET m2 == MapSet(m, id, terrain)
           IN  {Result(m2, n2, id) : n2 \in NextIds(m2, n)}

\* set whose validity check forgets the lower bound (id < 1)
set_noLowerBound(m, n, id0, terrain, override) ==
  LET id == Coalesce(id0, n)
  IN  IF ~override /\ Has(m, id) THEN {Result(m, n, Undefined)}
      ELSE IF ~IsInteger(id) THEN {Result(m, n, Undefined)}
      ELSE LET m2 == MapSet(m, id, terrain)
           IN  {Result(m2, n2, id) : n2 \in NextIds(m2, n)}

\* set that treats MAX_TERRAINS as a hard cap
set_hardCap(m, n, id0, terrain, override) ==
  LET id == Coalesce(id0, n)
  IN  IF ~override /\ Has(m, id) THEN {Result(m, n, Undefined)}
      ELSE IF ~IsInteger(id) \/ Lt(id, Num(1)) \/ Gt(id, Num(MAX_TERRAINS))
        THEN {Result(m, n, Undefined)}
      ELSE LET m2 == MapSet(m, id, terrain)
           IN  {Result(m2, n2, id) : n2 \in NextIds(m2, n)}

\* set(id, terrain, override = false): the possible results
set(m, n, id0, terrain, override) ==
  LET id == Coalesce(id0, n)
  IN  IF ~override /\ Has(m, id) THEN {Result(m, n, Undefined)}
      ELSE IF ~IsInteger(id) \/ Lt(id, Num(1)) THEN {Result(m, n, Undefined)}
      ELSE LET m2 == MapSet(m, id, terrain)
           IN  {Result(m2, n2, id) : n2 \in NextIds(m2, n)}

\* add(terrain)
add(m, n, terrain) ==
  LET id == n
      m2 == MapSet(m, id, terrain)
  IN  {Result(m2, n2, id) : n2 \in NextIds(m2, n)}

\* clear that forgets to reset the cursor
clear_keepCursor(m, n) == {Result(EmptyMap, n, Undefined)}

\* clear()
clear(m, n) == {Result(EmptyMap, Num(1), Undefined)}

\* delete that skips the presence check and always reports a removal
delete_noPresenceCheck(m, n, id) ==
  LET m2 == MapDelete(m, id)
  IN  IF Gt(n, id) THEN {Result(m2, n2, True) : n2 \in NextIds(m2, n)}
      ELSE {Result(m2, n, True)}

\* delete(id)
delete(m, n, id) ==
  IF ~Has(m, id) THEN {Result(m, n, False)}
  ELSE LET m2 == MapDelete(m, id)
       IN  IF Gt(n, id) THEN {Result(m2, n2, True) : n2 \in NextIds(m2, n)}
           ELSE {Result(m2, n, True)}

\* console.warn is the only effect of exceeding MAX_TERRAINS
Warns(id) == Gt(id, Num(MAX_TERRAINS))

\* the smallest positive integer that is not a key of m
SmallestFree(m) ==
  Num(CHOOSE i \in 1..(Size(m) + 1) :
        /\ Num(i) \notin DOMAIN m
        /\ \A j \in 1..(i - 1) : Num(j) \in DOMAIN m)

(* ----------------------- preCreateActiveEffect ------------------------ *)

\* the tokens on the canvas and the terrains an effect's origin can name;
\* Terrain._instances knows only the terrains of Instances
Tokens == {"t1"}
TerrainIds == {"forest", "swamp"}
Instances == {"forest"}

\* document.parent: nothing, a document that is no Actor, or an actor;
\* actor.token?.object is a token for a1 and undefined for a2
Actors == {"a1", "a2"}
Parents == {"none", "item"} \cup Actors
HasToken(parent) == parent = "a1"
TokenOf(parent) == "t1"

\* document.origin split at ".": no origin at all (null), or its segments
Origins ==
  {[set |-> FALSE, segs |-> << >>], [set |-> TRUE, segs |-> <<"Item">>]}
    \cup {[set |-> TRUE, segs |-> <<"Item", id>>] : id \in TerrainIds}

\* the pending effect documents
Documents ==
  [isTerrain : BOOLEAN, duplicatesAllowed : BOOLEAN, parent : Parents,
   origin : Origins]

\* the call threw a TypeError (null.split, a field of undefined)
Throws == [t |-> "throws", v |-> 0]

\* terrain.tokenHasTerrain(x): the possible results.  For a token, whether an
\* effect of the terrain is on it.  Anything else carries no effects: the
\* lookup finds none, or fails on the missing token fields
tokenHasTerrain(eff, terrainId, x) ==
  IF x \in Tokens THEN {IF eff[x][terrainId] > 0 THEN True ELSE False}
  ELSE {False, Throws}

\* preCreateActiveEffect(document, data, options, userId): the possible
\* results (False prevents the creation)
preCreateActiveEffect(eff, document) ==
  IF ~document.isTerrain \/ document.duplicatesAllowed THEN {Undefined}
  ELSE IF document.parent \notin Actors THEN {Undefined}
  ELSE IF ~HasToken(document.parent) THEN {Undefined}
  ELSE IF ~document.origin.set THEN {Throws}
  ELSE IF Len(document.origin.segs) < 2 THEN {Undefined}
  ELSE LET terrainId == document.origin.segs[2]
       IN  IF terrainId \notin Instances THEN {Undefined}
           ELSE {IF has = True THEN False
                 ELSE IF has = Throws THEN Throws ELSE Undefined :
                   has \in tokenHasTerrain(eff, terrainId, terrainId)}

\* the pending document is a terrain effect for a token: its parent actor
\* has a token and its origin names a terrain
OnToken(document) ==
  /\ document.isTerrain /\ HasToken(document.parent)
  /\ document.origin.set /\ Len(document.origin.segs) >= 2

NoEffects == [tok \in Tokens |-> [ter \in TerrainIds |-> 0]]

NoHook ==
  [called |-> FALSE,
   document |-> [isTerrain |-> FALSE, duplicatesAllowed |-> FALSE,
                 parent |-> "none", origin |-> [set |-> FALSE, segs |-> << >>]],
   existed |-> FALSE, ret |-> Undefined]

(* --------------------------- state machine ---------------------------- *)

Op(op, id, terrain, override, ret, m0, n0) ==
  [op |-> op, id |-> id, terrain |-> terrain, override |-> override,
   ret |-> ret, entries0 |-> m0, nextId0 |-> n0]

NoRun == [from |-> "other", adds |-> 0, k |-> Undefined]

Init ==
  /\ entries = EmptyMap
  /\ nextId = Num(1)
  /\ last = Op("new", Undefined, "none", FALSE, Undefined, EmptyMap, Num(1))
  /\ run = [from |-> "new", adds |-> 0, k |-> Undefined]
  /\ twin = [entries |-> EmptyMap, nextId |-> Num(1)]
  /\ effects = NoEffects
  /\ hook = NoHook

\* the map has room for the key id
Room(id) == Has(entries, id) \/ Size(entries) < MaxSize

Set ==
  \E id \in IdInputs, terrain \in Terrains, override \in BOOLEAN :
    /\ Coalesce(id, nextId) \in ValidIds \cup InvalidIds
    /\ Coalesce(id, nextId) \in ValidIds => Room(Coalesce(id, nextId))
    /\ \E r \in set(entries, nextId, id, terrain, override) :
         /\ entries' = r.entries
         /\ nextId' = r.nextId
         /\ last' = Op("set", id, terrain, override, r.ret, entries, nextId)
         /\ run' = NoRun
         /\ UNCHANGED aside

Add ==
  \E terrain \in Terrains :
    /\ nextId \in ValidIds \cup {NaN}
    /\ Room(nextId)
    /\ run.adds < MaxSize
    /\ \E r \in add(entries, nextId, terrain) :
         /\ entries' = r.entries
         /\ nextId' = r.nextId
         /\ last' = Op("add", Undefined, terrain, FALSE, r.ret, entries, nextId)
         /\ run' = IF run.from = "other" THEN run
                   ELSE [run EXCEPT !.adds = @ + 1]
         /\ UNCHANGED aside

Clear ==
  \E r \in clear(entries, nextId) :
    /\ entries' = r.entries
    /\ nextId' = r.nextId
    /\ last' = Op("clear", Undefined, "none", FALSE, r.ret, entries, nextId)
    /\ run' = [from |-> "clear", adds |-> 0, k |-> Undefined]
    /\ UNCHANGED aside

Delete ==
  \E id \in IdInputs \cup DOMAIN entries :
    \E r \in delete(entries, nextId, id) :
      /\ entries' = r.entries
      /\ nextId' = r.nextId
      /\ last' = Op("delete", id, "none", FALSE, r.ret, entries, nextId)
      /\ run' = IF /\ r.ret = True
                   /\ nextId = SmallestFree(entries)
                   /\ Lt(id, nextId)
                THEN [from |-> "recycle", adds |-> 0, k |-> id]
                ELSE NoRun
      /\ UNCHANGED aside

Next == Set \/ Add \/ Clear \/ Delete

Spec == Init /\ [][Next]_vars

(* -------------------------- two TerrainMaps --------------------------- *)

\* the results of every call offered on a TerrainMap with entries m and
\* cursor n (the calls of Set, Add, Clear and Delete, under their bounds)
Calls(m, n) ==
  LET room(id) == Has(m, id) \/ Size(m) < MaxSize
      sets == {c \in IdInputs \X Terrains \X BOOLEAN :
                 /\ Coalesce(c[1], n) \in ValidIds \cup InvalidIds
                 /\ Coalesce(c[1], n) \in ValidIds => room(Coalesce(c[1], n))}
      adds == IF n \in ValidIds \cup {NaN} /\ room(n) THEN Terrains ELSE {}
  IN  UNION ({set(m, n, c[1], c[2], c[3]) : c \in sets}
             \cup {add(m, n, terrain) : terrain \in adds}
             \cup {clear(m, n)}
             \cup {delete(m, n, id) : id \in IdInputs \cup DOMAIN m})

\* a call on the first TerrainMap
CallFirst ==
  \E r \in Calls(entries, nextId) :
    /\ entries' = r.entries
    /\ nextId' = r.nextId
    /\ UNCHANGED <<last, run, twin, effects, hook>>

\* a call on the second TerrainMap
CallTwin ==
  \E r \in Calls(twin.entries, twin.nextId) :
    /\ twin' = [entries |-> r.entries, nextId |-> r.nextId]
    /\ UNCHANGED <<entries, nextId, last, run, effects, hook>>

NextPair == CallFirst \/ CallTwin

SpecPair == Init /\ [][NextPair]_vars

(* ------------------------- effect creation ---------------------------- *)

\* ActiveEffect creation: the hook runs on the pending document and the
\* effect is created unless the hook returns false
CreateEffect ==
  \E document \in Documents :
    LET tok == TokenOf(document.parent)
        ter == document.origin.segs[2]
        existed == OnToken(document) /\ effects[tok][ter] > 0
    IN  /\ OnToken(document) => effects[tok][ter] < MaxEffects
        /\ \E ret \in preCreateActiveEffect(effects, document) :
             /\ hook' = [called |-> TRUE, document |-> document,
                         existed |-> existed, ret |-> ret]
             /\ effects' = IF ret # False /\ OnToken(document)
                           THEN [effects EXCEPT ![tok][ter] = @ + 1]
                           ELSE effects
             /\ UNCHANGED <<entries, nextId, last, run, twin>>

\* an effect of a terrain is removed from a token
DeleteEffect ==
  \E tok \in Tokens, ter \in TerrainIds :
    /\ effects[tok][ter] > 0
    /\ effects' = [effects EXCEPT ![tok][ter] = @ - 1]
    /\ hook' = NoHook
    /\ UNCHANGED <<entries, nextId, last, run, twin>>

NextHook == CreateEffect \/ DeleteEffect

SpecHook == Init /\ [][NextHook]_vars

(* ------------------------------- replay ------------------------------- *)

\* Reconstruction on load: assign(id, entry, override = true) for each stored
\* pair of m, in the order keys, on the container c; the possible results
RECURSIVE Replay(_, _, _, _)
Replay(m, keys, i, c) ==
  IF i > Len(keys) THEN {c}
  ELSE UNION {Replay(m, keys, i + 1, [entries |-> r.entries, nextId |-> r.nextId]) :
                r \in set(c.entries, c.nextId, keys[i], m[keys[i]], TRUE)}

\* the containers the ascending-order replay of m can yield
RoundTrip(m) ==
  UNION {Replay(m, keys, 1, [entries |-> EmptyMap, nextId |-> Num(1)]) :
           keys \in Sort(DOMAIN m)}

(* ------------------------------- claims ------------------------------- *)

\* the last operation changed the container
Mutated ==
  \/ last.op = "set" /\ last.ret # Undefined
  \/ last.op = "add"
  \/ last.op = "delete" /\ last.ret = True
  \/ last.op = "clear"

\* the id the last set acted on (id ??= this.#nextId)
SetId == Coalesce(last.id, last.nextId0)

\* the last operation left entries and cursor as they were
Unchanged == entries = last.entries0 /\ nextId = last.nextId0

\* C1: after each successful mutation (set, add, delete, clear) the cursor
\* equals the smallest positive integer that is not a key of the container.
C1_CursorIsSmallestFree == Mutated => nextId = SmallestFree(entries)

\* C2: the cursor is never a key of the container, so every add stores at a
\* previously free id, overwrites no entry and grows the map by exactly one.
C2_AddNeverCollides ==
  /\ ~Has(entries, nextId)
  /\ last.op = "add" =>
       /\ ~Has(last.entries0, last.ret)
       /\ Size(entries) = Size(last.entries0) + 1
       /\ \A k \in DOMAIN last.entries0 : Has(entries, k) /\ entries[k] = last.entries0[k]

C4_RemoveRecyclesId ==
  /\ (run.from = "recycle" /\ run.adds = 0) => nextId = run.k
  /\ (run.from = "recycle" /\ run.adds = 1) => last.ret = run.k

\* C5: set without override on an id that is a key is rejected and leaves
\* the key set, the entry at id and the cursor as they were.
C5_DuplicateRejected ==
  (last.op = "set" /\ ~last.override /\ Has(last.entries0, SetId)) =>
    /\ last.ret = Undefined
    /\ DOMAIN entries = DOMAIN last.entries0
    /\ entries[SetId] = last.entries0[SetId]
    /\ Unchanged

\* C5 witness: a set without override of a different terrain on a present id
\* has been rejected.
C5_Witness ==
  /\ last.op = "set" /\ ~last.override /\ last.id \in ValidIds
  /\ Has(last.entries0, last.id) /\ last.entries0[last.id] # last.terrain
  /\ last.ret = Undefined

\* C6: set with an id that is not a positive integer (id < 1 or not an
\* integer), with or without override, is rejected and leaves entries and
\* cursor as they were.
C6_InvalidIdRejected ==
  (last.op = "set" /\ last.id # Null /\ (~IsInteger(last.id) \/ Lt(last.id, Num(1)))) =>
    last.ret = Undefined /\ Unchanged

\* C6 witness: a set with override of id 0 on a non-empty container has been
\* rejected.
C6_Witness ==
  /\ last.op = "set" /\ last.override /\ last.id = Num(0)
  /\ last.entries0 # EmptyMap /\ last.ret = Undefined

\* C7: set with override on an id that is a key succeeds, returns the id,
\* stores the terrain at the id and leaves every other entry as it was.
C7_OverrideReplaces ==
  (last.op = "set" /\ last.override /\ Has(last.entries0, last.id)) =>
    /\ last.ret = last.id
    /\ DOMAIN entries = DOMAIN last.entries0
    /\ entries[last.id] = last.terrain
    /\ \A k \in DOMAIN entries \ {last.id} : entries[k] = last.entries0[k]

C9_ClearResets ==
  /\ last.op = "clear" => entries = EmptyMap /\ nextId = Num(1)
  /\ (run.from = "clear" /\ run.adds = 1) => last.ret = Num(1)

\* C9 witness: clear has run on a non-empty container whose cursor was not 1.
C9_Witness ==
  last.op = "clear" /\ last.entries0 # EmptyMap /\ last.nextId0 # Num(1)

\* C10: replaying the (id, entry) pairs of the container in ascending id
\* order with set(id, entry, true) on a new container yields the same key
\* set, the same entries and the same cursor.
C10_RoundTrip ==
  \A c \in RoundTrip(entries) : c.entries = entries /\ c.nextId = nextId

\* C11: every key of the container is an integer greater than or equal to 1.
C11_KeysArePositiveIntegers ==
  \A k \in DOMAIN entries : IsInteger(k) /\ ~Lt(k, Num(1))

\* C12: add(terrain) and set(null, terrain, false) are equivalent: from the
\* current state both return the same id and leave the same entries and the
\* same cursor.
C12_AddIsSetNull ==
  \A terrain \in Terrains :
    add(entries, nextId, terrain) = set(entries, nextId, Null, terrain, FALSE)

\* C14: gaps are filled by add: every add returns the smallest free id, so
\* the free ids below the largest key are handed out, in ascending order,
\* before any id above it.
C14_AddFillsGaps ==
  last.op = "add" => last.ret = SmallestFree(last.entries0)

\* C15: delete(id) of an id that is not a key returns false and leaves
\* entries and cursor as they were; delete(id) of a key returns true, after
\* which id is not a key and every other entry is as it was.
C15_DeleteFrame ==
  last.op = "delete" =>
    IF Has(last.entries0, last.id)
    THEN /\ last.ret = True
         /\ DOMAIN entries = DOMAIN last.entries0 \ {last.id}
         /\ \A k \in DOMAIN entries : entries[k] = last.entries0[k]
    ELSE last.ret = False /\ Unchanged

\* C15 witness: delete has removed a key and left another entry in place.
C15_Witness ==
  /\ last.op = "delete" /\ Has(last.entries0, last.id) /\ last.ret = True
  /\ entries # EmptyMap /\ ~Has(entries, last.id)

\* the last operation recomputed the cursor with #findNextId
Recomputed ==
  \/ last.op = "set" /\ last.ret # Undefined
  \/ last.op = "add"
  \/ last.op = "delete" /\ last.ret = True /\ Gt(last.nextId0, last.id)

\* the rule of the specification for the next free id: with the integer keys
\* in ascending order the first key k whose successor is not a key gives
\* k + 1 (max + 1 when there is no gap), and 1 when there is no key
SpecifiedNextId(m) ==
  LET ks == {k \in DOMAIN m : IsInteger(k)}
      ends == {k \in ks : Plus(k, 1) \notin ks}
  IN  IF ks = {} THEN Num(1)
      ELSE Plus(CHOOSE k \in ends : \A j \in ends : k.v <= j.v, 1)

\* C16: every recomputation of the cursor yields the value of the specified
\* rule (first gap after a key, else max + 1, else 1 for the empty map).
C16_RecomputationFollowsRule == Recomputed => nextId = SpecifiedNextId(entries)

\* C17: a successful set with override on an id that is a key leaves the key
\* set and the cursor as they were.
C17_OverrideKeepsCursor ==
  (/\ last.op = "set" /\ last.override /\ Has(last.entries0, last.id)
   /\ last.ret # Undefined) =>
    DOMAIN entries = DOMAIN last.entries0 /\ nextId = last.nextId0

\* C18: a successful set of a free id greater than the cursor leaves the
\* cursor as it was, and the cursor id is still free.
C18_HigherIdKeepsCursor ==
  (/\ last.op = "set" /\ last.ret # Undefined
   /\ ~Has(last.entries0, last.id) /\ Gt(last.id, last.nextId0)) =>
    nextId = last.nextId0 /\ ~Has(entries, nextId)

\* C19: the cursor is always an integer greater than or equal to 1, so that
\* set(null, terrain) on an empty container stores at 1 and returns 1.
C19_CursorIsPositiveInteger ==
  /\ IsInteger(nextId) /\ ~Lt(nextId, Num(1))
  /\ (last.op = "set" /\ last.id = Null /\ last.entries0 = EmptyMap) =>
       last.ret = Num(1)

\* C13: the cursor is a function of the key set only: two TerrainMaps that
\* went through any two sequences of calls and have the same key set have
\* the same cursor.
C13_CursorDependsOnKeysOnly ==
  DOMAIN entries = DOMAIN twin.entries => nextId = twin.nextId

\* C20: preCreateActiveEffect returns false exactly when the pending effect
\* is a terrain without duplicates allowed whose terrain is already on the
\* token of the parent actor, so that no such effect is created on a token
\* that already has the terrain.
C20_HookVetoesDuplicates ==
  hook.called =>
    /\ hook.ret = False <=>
         (~hook.document.duplicatesAllowed /\ OnToken(hook.document) /\ hook.existed)
    /\ (~hook.document.duplicatesAllowed /\ OnToken(hook.document)) =>
         effects[TokenOf(hook.document.parent)][hook.document.origin.segs[2]] <= 1

====
